---- MODULE Spec2Model ----
(***************************************************************************)
(* Model of InvenTree/InvenTree/views.py: the TreeSerializer, the          *)
(* AjaxMixin and the AjaxView / QRCodeView / AjaxCreateView /              *)
(* AjaxUpdateView / AjaxDeleteView request handlers.                       *)
(*                                                                         *)
(* One action handles one HTTP request from start to finish.  Python       *)
(* dicts are functions over strings; a list is a sequence.  The two        *)
(* default arguments data={} and context={} of renderJsonResponse are      *)
(* evaluated once, when the function is defined, so the two dict objects   *)
(* live as long as the process: they are the variables defaultData and     *)
(* defaultContext.                                                         *)
(***************************************************************************)
EXTENDS Integers, Sequences, FiniteSets, TLC

\* ---------------------------------------------------------------- bounds
MaxId == 3
MaxName == 2
MaxCount == 1
MaxRequests == 4

\* ------------------------------------------------------------- constants
\* Python's None where an identifier is expected (parent=None, 'pk': None,
\* a form without an instance).  Identifiers start at 1.
None == 0

Ids == 1..MaxId
\* A name is its rank in the collation order_by('name') sorts by; 0 is the
\* blank name, which a form refuses.
Names == 1..MaxName
Counts == 0..MaxCount

VARIABLES
    records,        \* the model's table: id -> [name, parent, stock_item_count]
    nextId,         \* the next value of the auto-increment primary key
    defaultData,    \* the dict object behind renderJsonResponse's data={}
    defaultContext, \* the dict object behind renderJsonResponse's context={}
    handled,        \* how many requests the process has handled
    request,        \* the request being handled
    response        \* what the handler returned for it

vars == <<records, nextId, defaultData, defaultContext, handled, request, response>>

\* ----------------------------------------------------------------- dicts
EmptyDict == [k \in {} |-> TRUE]

\* d[k] = v on a dict
Put(d, k, v) == (k :> v) @@ d

\* for key in fb.keys(): data[key] = fb[key]
Merge(data, fb) == fb @@ data

\* ------------------------------------------------------------------- ORM
\* The records that are children of record i (item.children, the reverse
\* side of the parent reference).
Children(i, recs) == {j \in DOMAIN recs : recs[j].parent = i}

\* item.has_children
HasChildren(i, recs) == Children(i, recs) # {}

\* model.objects.filter(parent=None)
TopItems(recs) == {j \in DOMAIN recs : recs[j].parent = None}

RECURSIVE AncestorsOf(_, _)
AncestorsOf(i, recs) ==
    IF recs[i].parent = None
    THEN {}
    ELSE {recs[i].parent} \cup AncestorsOf(recs[i].parent, recs)

Descendants(i, recs) == {j \in DOMAIN recs : i \in AncestorsOf(j, recs)}

\* queryset.order_by('name'): ascending by name.  The database is free to
\* return rows of equal name in any order; tie is the order it happens to
\* use for this query (a ranking of the identifiers).
Before(i, j, recs, tie) ==
    \/ recs[i].name < recs[j].name
    \/ recs[i].name = recs[j].name /\ tie[i] <= tie[j]

\* order_by('name') left out: the rows in the order the database has them.
RECURSIVE OrderByNameUnsorted(_, _, _)
OrderByNameUnsorted(S, recs, tie) ==
    IF S = {}
    THEN <<>>
    ELSE LET m == CHOOSE x \in S : \A y \in S : tie[x] <= tie[y]
         IN  <<m>> \o OrderByNameUnsorted(S \ {m}, recs, tie)

RECURSIVE OrderByName(_, _, _)
OrderByName(S, recs, tie) ==
    IF S = {}
    THEN <<>>
    ELSE LET m == CHOOSE x \in S : \A y \in S : Before(x, y, recs, tie)
         IN  <<m>> \o OrderByName(S \ {m}, recs, tie)

\* The rankings a query may use to break ties.
Ties == {t \in [Ids -> Ids] : \A i, j \in Ids : t[i] = t[j] => i = j}

\* obj.get_absolute_url()
Url(i) == <<"url", i>>

\* get_object(): the record the URL's pk names, if any.
ObjectExists(pk, recs) == pk \in DOMAIN recs

\* obj.delete() that removes nothing.
DeleteObjectNoop(pk, recs, policy) == recs

\* obj.delete().  What happens to the children of a deleted record is the
\* model's on_delete policy, which this file does not decide: either they
\* are deleted with it, or they move up to its parent.
DeleteObject(pk, recs, policy) ==
    IF policy = "cascade"
    THEN [j \in (DOMAIN recs \ ({pk} \cup Descendants(pk, recs))) |-> recs[j]]
    ELSE [j \in (DOMAIN recs \ {pk}) |->
            IF recs[j].parent = pk
            THEN [recs[j] EXCEPT !.parent = recs[pk].parent]
            ELSE recs[j]]

OnDelete == {"cascade", "reparent"}

\* ----------------------------------------------------------------- forms
\* The editable fields of a record.  stock_item_count is derived by the
\* model from other tables and is not a form field.
Fields(name, parent) == [name |-> name, parent |-> parent]

BlankFields == Fields(0, None)

FieldsOf(rec) == Fields(rec.name, rec.parent)

\* What a client may submit.
Payloads == {Fields(n, p) : n \in 0..MaxName, p \in {None} \cup Ids}

\* get_form() that leaves an unbound form blank, whatever its instance.
get_formBlank(method, instance, post, recs) ==
    [instance |-> instance,
     is_bound |-> method = "POST",
     fields   |-> IF method = "POST" THEN post ELSE BlankFields]

\* get_form().  On GET the form is unbound and shows the instance's values
\* (blank without an instance); on POST it is bound to the submitted data.

get_form(method, instance, post, recs) ==
    [instance |-> instance,
     is_bound |-> method = "POST",
     fields   |-> IF method = "POST" THEN post
                  ELSE IF instance = None THEN BlankFields
                  ELSE FieldsOf(recs[instance])]

\* form.is_valid(): only a bound form validates; the name is required, the
\* parent must resolve, and a record is never put below itself.
is_valid(form, recs) ==
    /\ form.is_bound
    /\ form.fields.name # 0
    /\ form.fields.parent \in {None} \cup DOMAIN recs
    /\ form.instance # None /\ form.fields.parent # None =>
          /\ form.fields.parent # form.instance
          /\ form.instance \notin AncestorsOf(form.fields.parent, recs)

\* form.save(): insert (no instance) or update (instance) and return the
\* table; SavedPk is obj.pk of the object save() returns.
SavedPk(form, nxt) == IF form.instance = None THEN nxt ELSE form.instance

save(form, recs, nxt) ==
    IF form.instance = None
    THEN (nxt :> [name |-> form.fields.name, parent |-> form.fields.parent,
                  stock_item_count |-> 0]) @@ recs
    ELSE [recs EXCEPT ![form.instance] =
            [@ EXCEPT !.name = form.fields.name, !.parent = form.fields.parent]]

\* ------------------------------------------------------------- AjaxMixin
\* An optional Python value is a sequence of length 0 (None) or 1.
Nothing == <<>>
Some(v) == <<v>>

\* ajax_form_title, a class attribute.
ajax_form_title == ""

\* ajax_template_name.  AjaxView and QRCodeView set it; the other views get
\* it from their subclass, named after the view here.
ajax_template_name(view) ==
    CASE view = "AjaxView"   -> "modal_form.html"
      [] view = "QRCodeView" -> "qr_code.html"
      [] OTHER               -> view

\* render_to_string(template, context): the HTML is a function of the
\* template and of the context it is rendered with.
render_to_string(template, context) == [template |-> template, context |-> context]

\* get_data(): the default implementation.
get_data == EmptyDict

\* renderJsonResponse that answers with the data it was given plus the
\* get_data() keys only.
renderJsonResponseBare(form, data, context, view) ==
    LET context1 == IF form # Nothing THEN Put(context, "form", form[1]) ELSE context
    IN  [data |-> Merge(data, get_data), context |-> context1]

\* renderJsonResponse(request, form, data, context).  data and context are
\* the dict objects the caller passed (or the shared defaults); both are
\* written in place, so the result carries both as they are afterwards.
renderJsonResponse(form, data, context, view) ==
    LET context1 == IF form # Nothing THEN Put(context, "form", form[1]) ELSE context
        data1    == Put(data, "title", ajax_form_title)
        data2    == Put(data1, "html_form",
                        render_to_string(ajax_template_name(view), context1))
    IN  [data |-> Merge(data2, get_data), context |-> context1]

\* get_context_data() of the generic detail and edit views: a new dict per
\* call, naming the object the view works on.
ObjectContext(pk) == "object" :> pk

\* ---------------------------------------------------- requests, responses
\* What is recorded of a request: the view it was routed to, its method, the
\* pk of its URL (None without one) and what get_qr_data() returned for it.
\* The submitted fields are read through the bound form.
Request(view, method, pk, qr) ==
    [view |-> view, method |-> method, pk |-> pk, qr |-> qr]

NoRequest == Request("", "", None, Nothing)

\* JsonResponse(data)
JsonResponse(data) == [status |-> "ok", data |-> data]

\* get_object() found nothing: the framework's not-found failure, no envelope.
NotFound == [status |-> "not_found", data |-> EmptyDict]

NoResponse == [status |-> "", data |-> EmptyDict]

\* The process takes one request at a time, MaxRequests in all.
Accept ==
    /\ handled < MaxRequests
    /\ handled' = handled + 1

\* ------------------------------------------------------- AjaxView, QRCodeView
\* AjaxView.post (QRCodeView inherits it)
AjaxViewPost(view) ==
    /\ Accept
    /\ request' = Request(view, "POST", None, Nothing)
    /\ response' = JsonResponse("")
    /\ UNCHANGED <<records, nextId, defaultData, defaultContext>>

\* AjaxView.get
AjaxViewGet ==
    LET r == renderJsonResponse(Nothing, defaultData, defaultContext, "AjaxView")
    IN  /\ Accept
        /\ request' = Request("AjaxView", "GET", None, Nothing)
        /\ defaultData' = r.data
        /\ defaultContext' = r.context
        /\ response' = JsonResponse(r.data)
        /\ UNCHANGED <<records, nextId>>

\* What a subclass's get_qr_data() may return: None, '' or a text.
QrValues == {Nothing, Some(""), Some("qr")}

\* Python truth of an optional string
Truthy(qr) == qr # Nothing /\ qr[1] # ""

\* get_context_data testing "qr is not None" instead of the truth of qr.
get_context_dataNotNone(qr) ==
    IF qr # Nothing
    THEN Put(EmptyDict, "qr_data", qr[1])
    ELSE Put(EmptyDict, "error_msg", "Error generating QR code")

\* QRCodeView.get_context_data
get_context_data(qr) ==
    IF Truthy(qr)
    THEN Put(EmptyDict, "qr_data", qr[1])
    ELSE Put(EmptyDict, "error_msg", "Error generating QR code")

\* QRCodeView.get
QRCodeViewGet(pk, qr) ==
    LET r == renderJsonResponse(Nothing, defaultData, get_context_data(qr), "QRCodeView")
    IN  /\ Accept
        /\ request' = Request("QRCodeView", "GET", pk, qr)
        /\ defaultData' = r.data
        /\ response' = JsonResponse(r.data)
        /\ UNCHANGED <<records, nextId, defaultContext>>

\* -------------------------------------------------------- AjaxCreateView
\* AjaxCreateView.get
AjaxCreateViewGet ==
    LET form == get_form("GET", None, BlankFields, records)
        r    == renderJsonResponse(Some(form), defaultData, defaultContext, "AjaxCreateView")
    IN  /\ Accept
        /\ request' = Request("AjaxCreateView", "GET", None, Nothing)
        /\ defaultData' = r.data
        /\ defaultContext' = r.context
        /\ response' = JsonResponse(r.data)
        /\ UNCHANGED <<records, nextId>>

\* post() data with the pk set outside the "if form.is_valid()" block.
PostDataPkAlways(valid, pk, has_url) ==
    LET d1 == Put(Put(EmptyDict, "form_valid", valid), "pk", pk)
    IN  IF valid /\ has_url THEN Put(d1, "url", Url(pk)) ELSE d1

\* The data dict post() builds before rendering (create and update).
PostData(valid, pk, has_url) ==
    LET d0 == Put(EmptyDict, "form_valid", valid)
        d1 == IF valid THEN Put(d0, "pk", pk) ELSE d0
    IN  IF valid /\ has_url THEN Put(d1, "url", Url(pk)) ELSE d1

\* post() that saves without asking for the name to validate.
PostRecordsNameUnchecked(form, recs, nxt) ==
    IF is_valid([form EXCEPT !.fields.name = 1], recs) THEN save(form, recs, nxt) ELSE recs

\* The table after post(): saved if and only if the form is valid.
PostRecords(form, recs, nxt) ==
    IF is_valid(form, recs) THEN save(form, recs, nxt) ELSE recs

\* AjaxCreateView.post
AjaxCreateViewPost(post, has_url) ==
    LET form  == get_form("POST", None, post, records)
        valid == is_valid(form, records)
        pk    == SavedPk(form, nextId)
        \* after save() the form's instance is the saved object
        saved == IF valid THEN [form EXCEPT !.instance = pk] ELSE form
        r     == renderJsonResponse(Some(saved), PostData(valid, pk, has_url),
                                    defaultContext, "AjaxCreateView")
    IN  /\ valid => nextId <= MaxId
        /\ Accept
        /\ request' = Request("AjaxCreateView", "POST", None, Nothing)
        /\ records' = PostRecords(form, records, nextId)
        /\ nextId' = IF valid THEN nextId + 1 ELSE nextId
        /\ defaultContext' = r.context
        /\ response' = JsonResponse(r.data)
        /\ UNCHANGED defaultData

\* -------------------------------------------------------- AjaxUpdateView
\* AjaxUpdateView.get
AjaxUpdateViewGet(pk) ==
    /\ Accept
    /\ request' = Request("AjaxUpdateView", "GET", pk, Nothing)
    /\ UNCHANGED <<records, nextId, defaultContext>>
    /\ IF ~ObjectExists(pk, records)
       THEN /\ response' = NotFound
            /\ UNCHANGED defaultData
       ELSE LET form == get_form("GET", pk, BlankFields, records)
                r    == renderJsonResponse(Some(form), defaultData, ObjectContext(pk),
                                           "AjaxUpdateView")
            IN  /\ defaultData' = r.data
                /\ response' = JsonResponse(r.data)

\* AjaxUpdateView.post
AjaxUpdateViewPost(pk, post, has_url) ==
    /\ Accept
    /\ request' = Request("AjaxUpdateView", "POST", pk, Nothing)
    /\ UNCHANGED <<nextId, defaultData>>
    /\ IF ~ObjectExists(pk, records)
       THEN /\ response' = NotFound
            /\ UNCHANGED <<records, defaultContext>>
       ELSE LET form  == get_form("POST", pk, post, records)
                valid == is_valid(form, records)
                r     == renderJsonResponse(Some(form),
                                            PostData(valid, SavedPk(form, nextId), has_url),
                                            defaultContext, "AjaxUpdateView")
            IN  /\ records' = PostRecords(form, records, nextId)
                /\ defaultContext' = r.context
                /\ response' = JsonResponse(r.data)

\* -------------------------------------------------------- AjaxDeleteView
\* The data dict AjaxDeleteView.get builds.
DeleteGetData(pk) ==
    Put(Put(Put(Put(EmptyDict, "id", pk), "delete", FALSE), "title", ajax_form_title),
        "html_data", render_to_string(ajax_template_name("AjaxDeleteView"), ObjectContext(pk)))

\* AjaxDeleteView.get
AjaxDeleteViewGet(pk) ==
    /\ Accept
    /\ request' = Request("AjaxDeleteView", "GET", pk, Nothing)
    /\ response' = IF ObjectExists(pk, records) THEN JsonResponse(DeleteGetData(pk)) ELSE NotFound
    /\ UNCHANGED <<records, nextId, defaultData, defaultContext>>

\* The data dict AjaxDeleteView.post passes to renderJsonResponse.
DeletePostData(pk) == Put(Put(EmptyDict, "id", pk), "delete", TRUE)

\* AjaxDeleteView.post
AjaxDeleteViewPost(pk, policy) ==
    /\ Accept
    /\ request' = Request("AjaxDeleteView", "POST", pk, Nothing)
    /\ UNCHANGED <<nextId, defaultData, defaultContext>>
    /\ IF ~ObjectExists(pk, records)
       THEN /\ response' = NotFound
            /\ UNCHANGED records
       ELSE LET r == renderJsonResponse(Nothing, DeletePostData(pk), defaultContext,
                                        "AjaxDeleteView")
            IN  /\ records' = DeleteObject(pk, records, policy)
                /\ response' = JsonResponse(r.data)

\* -------------------------------------------------------- TreeSerializer
\* TreeSerializer.title, set by the subclass; root_url's default.
title == "Tree"
root_url == <<"#">>

\* itemToJson with the nodes key set on every node, empty for a leaf.
RECURSIVE itemToJsonAlwaysNodes(_, _, _)
itemToJsonAlwaysNodes(item, recs, tie) ==
    LET data  == [pk   |-> item,
                  text |-> recs[item].name,
                  href |-> Url(item),
                  tags |-> <<recs[item].stock_item_count>>]
        order == OrderByName(Children(item, recs), recs, tie)
    IN  Put(data, "nodes",
            [k \in 1..Len(order) |-> itemToJsonAlwaysNodes(order[k], recs, tie)])

\* TreeSerializer.itemToJson
RECURSIVE itemToJson(_, _, _)
itemToJson(item, recs, tie) ==
    LET data  == [pk   |-> item,
                  text |-> recs[item].name,
                  href |-> Url(item),
                  tags |-> <<recs[item].stock_item_count>>]
        order == OrderByName(Children(item, recs), recs, tie)
    IN  IF HasChildren(item, recs)
        THEN Put(data, "nodes", [k \in 1..Len(order) |-> itemToJson(order[k], recs, tie)])
        ELSE data

\* top_count taken over the whole subtree of every top-level item.
RECURSIVE SubtreeCount(_, _)
SubtreeCount(S, recs) ==
    IF S = {}
    THEN 0
    ELSE LET i == CHOOSE x \in S : TRUE
         IN  recs[i].stock_item_count + SubtreeCount(Children(i, recs), recs)
             + SubtreeCount(S \ {i}, recs)

TopCountFullTree(items, recs) == SubtreeCount({items[k] : k \in 1..Len(items)}, recs)

\* top_count += item.stock_item_count, over the top-level items
RECURSIVE TopCount(_, _)
TopCount(items, recs) ==
    IF items = <<>>
    THEN 0
    ELSE recs[Head(items)].stock_item_count + TopCount(Tail(items), recs)

\* The 'tree' value TreeSerializer.get answers with.
TreeJson(recs, tie) ==
    LET top_items == OrderByName(TopItems(recs), recs, tie)
        top == [pk    |-> None,
                text  |-> title,
                href  |-> root_url,
                nodes |-> [k \in 1..Len(top_items) |-> itemToJson(top_items[k], recs, tie)],
                tags  |-> <<TopCount(top_items, recs)>>]
    IN  <<top>>

\* TreeSerializer.get
TreeSerializerGet(tie) ==
    /\ Accept
    /\ request' = Request("TreeSerializer", "GET", None, Nothing)
    /\ response' = JsonResponse(Put(EmptyDict, "tree", TreeJson(records, tie)))
    /\ UNCHANGED <<records, nextId, defaultData, defaultContext>>

\* ---------------------------------------------------------- specification
\* A started process with an empty table.
Init ==
    /\ records = EmptyDict
    /\ nextId = 1
    /\ defaultData = EmptyDict
    /\ defaultContext = EmptyDict
    /\ handled = 0
    /\ request = NoRequest
    /\ response = NoResponse

Next ==
    \/ \E view \in {"AjaxView", "QRCodeView"} : AjaxViewPost(view)
    \/ AjaxViewGet
    \/ \E pk \in Ids, qr \in QrValues : QRCodeViewGet(pk, qr)
    \/ AjaxCreateViewGet
    \/ \E post \in Payloads, has_url \in BOOLEAN : AjaxCreateViewPost(post, has_url)
    \/ \E pk \in Ids : AjaxUpdateViewGet(pk)
    \/ \E pk \in Ids, post \in Payloads, has_url \in BOOLEAN : AjaxUpdateViewPost(pk, post, has_url)
    \/ \E pk \in Ids : AjaxDeleteViewGet(pk)
    \/ \E pk \in Ids, policy \in OnDelete : AjaxDeleteViewPost(pk, policy)
    \/ \E tie \in Ties : TreeSerializerGet(tie)

Spec == Init /\ [][Next]_vars

\* The TreeSerializer on its own: the table is any forest of up to MaxId
\* records, with any names and stock counts, and the only requests are GETs
\* of the tree, one per table.  The serializer uses an identifier as a label only (pk,
\* href) and the tie ranking ranges over all orders, so the records are
\* numbered parent before child: every forest shape has such a numbering.
Forests ==
    UNION {{recs \in [1..n -> [name : Names, parent : {None} \cup 1..n,
                               stock_item_count : Counts]] :
                \A i \in 1..n : recs[i].parent < i}
           : n \in 0..MaxId}

InitTree ==
    /\ records \in Forests
    /\ nextId = MaxId + 1
    /\ defaultData = EmptyDict
    /\ defaultContext = EmptyDict
    /\ handled = MaxRequests - 1
    /\ request = NoRequest
    /\ response = NoResponse

NextTree == \E tie \in Ties : TreeSerializerGet(tie)

SpecTree == InitTree /\ [][NextTree]_vars

\* ------------------------------------------------------ Ajax view claims
Is(view, method) == request.view = view /\ request.method = method

\* The request the step under consideration handles.
Handles(view, method) == request'.view = view /\ request'.method = method

\* The template context of the rendering in the envelope.
RenderedContext(data) == data.html_form.context

\* The form of a post() as it was bound, before save() gave it an instance.
AsBound(form, view) ==
    IF view = "AjaxCreateView" THEN [form EXCEPT !.instance = None] ELSE form

\* C1: an AjaxCreateView POST with a valid form answers form_valid = true
\* and the pk of the record this POST inserted, which holds the submitted
\* fields; with an invalid form it answers form_valid = false without a pk
\* key and the table is as before.
C1_CreatePost ==
    [][Handles("AjaxCreateView", "POST") =>
        LET d == response'.data
            f == RenderedContext(d).form
        IN  IF is_valid(AsBound(f, "AjaxCreateView"), records)
            THEN /\ d.form_valid = TRUE
                 /\ "pk" \in DOMAIN d
                 /\ d.pk \notin DOMAIN records
                 /\ DOMAIN records' = DOMAIN records \cup {d.pk}
                 /\ FieldsOf(records'[d.pk]) = f.fields
                 /\ \A i \in DOMAIN records : records'[i] = records[i]
            ELSE /\ d.form_valid = FALSE
                 /\ "pk" \notin DOMAIN d
                 /\ records' = records]_vars

\* A valid create POST that inserted a record into a table that had one.
C1_Witness ==
    /\ Is("AjaxCreateView", "POST")
    /\ response.data.form_valid
    /\ response.data.pk \in DOMAIN records
    /\ Cardinality(DOMAIN records) > 1

\* C2: an AjaxDeleteView POST for an existing pk answers id = pk and
\* delete = true and the record is gone afterwards; for a pk without a
\* record it fails with not-found and deletes nothing; and the pk of a
\* deleted record never resolves again, so a second POST is such a failure.
C2_DeletePost ==
    [][/\ Handles("AjaxDeleteView", "POST") =>
            IF request'.pk \in DOMAIN records
            THEN /\ response'.status = "ok"
                 /\ response'.data.id = request'.pk
                 /\ response'.data.delete = TRUE
                 /\ request'.pk \notin DOMAIN records'
            ELSE /\ response'.status = "not_found"
                 /\ records' = records
       /\ \A i \in Ids : i < nextId /\ i \notin DOMAIN records => i \notin DOMAIN records'
      ]_vars

\* A delete POST against the pk of a record deleted before, failing, while
\* another record is still there.
C2_Witness ==
    /\ Is("AjaxDeleteView", "POST")
    /\ response.status = "not_found"
    /\ request.pk < nextId
    /\ records # EmptyDict

\* The context keys a request writes itself: the form it passes and the keys
\* of the context it passes.
OwnContextKeys ==
    CASE Is("AjaxView", "GET")        -> {}
      [] Is("QRCodeView", "GET")      -> {"qr_data", "error_msg"}
      [] Is("AjaxCreateView", "GET")  -> {"form"}
      [] Is("AjaxCreateView", "POST") -> {"form"}
      [] Is("AjaxUpdateView", "GET")  -> {"form", "object"}
      [] Is("AjaxUpdateView", "POST") -> {"form"}
      [] Is("AjaxDeleteView", "POST") -> {}

\* The response went through renderJsonResponse.
Rendered ==
    /\ response.status = "ok"
    /\ request.view \in {"AjaxView", "QRCodeView", "AjaxCreateView",
                         "AjaxUpdateView", "AjaxDeleteView"}
    /\ ~(request.method = "POST" /\ request.view \in {"AjaxView", "QRCodeView"})
    /\ ~Is("AjaxDeleteView", "GET")

\* C3: the template context and the JSON data renderJsonResponse uses for a
\* request hold only what this request wrote: its own form and context keys,
\* title, html_form and the data keys the handler set.
C3_NoCarryOver ==
    Rendered =>
        /\ DOMAIN RenderedContext(response.data) \subseteq OwnContextKeys
        /\ DOMAIN response.data \subseteq
              {"title", "html_form", "form_valid", "pk", "url", "id", "delete"}

\* C4: an AjaxUpdateView GET for a pk without a record fails with not-found
\* and no envelope; for an existing pk the form in the envelope is that
\* record's form and its fields are the record's persisted values.
C4_UpdateGet ==
    Is("AjaxUpdateView", "GET") =>
        IF request.pk \in DOMAIN records
        THEN /\ response.status = "ok"
             /\ RenderedContext(response.data).form.instance = request.pk
             /\ RenderedContext(response.data).form.fields = FieldsOf(records[request.pk])
        ELSE /\ response.status = "not_found"
             /\ response.data = EmptyDict

\* An update GET answered after an update POST for the same record was
\* refused: the refused form is still in the shared context and differs
\* from the record.
C4_Witness ==
    /\ Is("AjaxUpdateView", "GET")
    /\ response.status = "ok"
    /\ "form" \in DOMAIN defaultContext
    /\ defaultContext.form.is_bound
    /\ defaultContext.form.instance = request.pk
    /\ defaultContext.form.fields # FieldsOf(records[request.pk])

\* C5 as the specification states it: the delete GET envelope has exactly
\* the keys id, delete, title, html_data and the delete POST envelope has
\* exactly the keys id and delete.
C5_DeleteKeysAsStated ==
    /\ Is("AjaxDeleteView", "GET") /\ response.status = "ok" =>
          /\ DOMAIN response.data = {"id", "delete", "title", "html_data"}
          /\ response.data.id = request.pk /\ response.data.delete = FALSE
    /\ Is("AjaxDeleteView", "POST") /\ response.status = "ok" =>
          /\ DOMAIN response.data = {"id", "delete"}
          /\ response.data.id = request.pk /\ response.data.delete = TRUE

\* C5 amended: the delete GET envelope has exactly the keys id, delete
\* (false), title, html_data; the delete POST envelope goes through
\* renderJsonResponse and has exactly the keys id, delete (true), title and
\* html_form.
C5_DeleteKeys ==
    /\ Is("AjaxDeleteView", "GET") /\ response.status = "ok" =>
          /\ DOMAIN response.data = {"id", "delete", "title", "html_data"}
          /\ response.data.id = request.pk /\ response.data.delete = FALSE
    /\ Is("AjaxDeleteView", "POST") /\ response.status = "ok" =>
          /\ DOMAIN response.data = {"id", "delete", "title", "html_form"}
          /\ response.data.id = request.pk /\ response.data.delete = TRUE

\* A delete POST that removed a record.
C5_Witness ==
    /\ Is("AjaxDeleteView", "POST")
    /\ response.status = "ok"
    /\ request.pk \notin DOMAIN records

\* C6: a QRCodeView GET renders with qr_data (the value) and without
\* error_msg when get_qr_data() returned a non-empty value, and with
\* error_msg and without qr_data when it returned an empty one or None.
C6_QrContext ==
    Is("QRCodeView", "GET") =>
        LET ctx == RenderedContext(response.data)
        IN  IF Truthy(request.qr)
            THEN /\ "qr_data" \in DOMAIN ctx /\ "error_msg" \notin DOMAIN ctx
                 /\ ctx.qr_data = request.qr[1]
            ELSE /\ "error_msg" \in DOMAIN ctx /\ "qr_data" \notin DOMAIN ctx

\* A QR GET whose get_qr_data() returned the empty string, handled while the
\* shared context holds a form.
C6_Witness ==
    /\ Is("QRCodeView", "GET")
    /\ request.qr = Some("")
    /\ "form" \in DOMAIN defaultContext

\* C10: the table changes only in a create or update POST whose form is
\* valid or in a delete POST for an existing pk; every other request leaves
\* every record as it is.
C10_Frame ==
    [][records' # records =>
        \/ /\ request'.view \in {"AjaxCreateView", "AjaxUpdateView"}
           /\ request'.method = "POST"
           /\ response'.status = "ok"
           /\ is_valid(AsBound(RenderedContext(response'.data).form, request'.view), records)
        \/ /\ Handles("AjaxDeleteView", "POST")
           /\ request'.pk \in DOMAIN records]_vars

\* An update POST refused for an existing record.
C10_Witness ==
    /\ Is("AjaxUpdateView", "POST")
    /\ response.status = "ok"
    /\ ~response.data.form_valid
    /\ request.pk \in DOMAIN records

\* ------------------------------------------------- TreeSerializer claims
TreeAnswered == request.view = "TreeSerializer" /\ response.status = "ok"

Root == response.data.tree[1]

\* The nodes of a subtree, the subtree's own node included.
RECURSIVE NodesIn(_)
NodesIn(node) ==
    {node} \cup
    (IF "nodes" \in DOMAIN node
     THEN UNION {NodesIn(node.nodes[k]) : k \in 1..Len(node.nodes)}
     ELSE {})

\* Every node built from a record, at any depth.
RecordNodes == UNION {NodesIn(Root.nodes[k]) : k \in 1..Len(Root.nodes)}

\* The pk of every node below the root wrapper, one entry per node.
RECURSIVE PkList(_)
PkList(nodes) ==
    IF nodes = <<>>
    THEN <<>>
    ELSE <<Head(nodes).pk>>
         \o (IF "nodes" \in DOMAIN Head(nodes) THEN PkList(Head(nodes).nodes) ELSE <<>>)
         \o PkList(Tail(nodes))

RECURSIVE SumCounts(_, _)
SumCounts(S, recs) ==
    IF S = {}
    THEN 0
    ELSE LET i == CHOOSE x \in S : TRUE
         IN  recs[i].stock_item_count + SumCounts(S \ {i}, recs)

\* The sibling list under a node whose record is parent (None: the root
\* wrapper) is in ascending order of name and holds records of that parent.
SiblingsInOrder(nodes, parent) ==
    /\ \A k \in 1..Len(nodes) :
          /\ nodes[k].pk \in DOMAIN records
          /\ records[nodes[k].pk].parent = parent
          /\ nodes[k].text = records[nodes[k].pk].name
    /\ \A k \in 1..(Len(nodes) - 1) : nodes[k].text <= nodes[k + 1].text

\* C7: in the tree output every node built from a record has the nodes key
\* if and only if that record has at least one child record, and a nodes
\* array is never empty.
C7_NodesIffChildren ==
    TreeAnswered =>
        \A nd \in RecordNodes :
            /\ ("nodes" \in DOMAIN nd) <=> (\E j \in DOMAIN records : records[j].parent = nd.pk)
            /\ "nodes" \in DOMAIN nd => nd.nodes # <<>>

\* A tree with a leaf and, below the top level, a node that has children.
C7_Witness ==
    /\ TreeAnswered
    /\ \E a, b \in RecordNodes :
          /\ "nodes" \notin DOMAIN a
          /\ "nodes" \in DOMAIN b /\ records[b.pk].parent # None

\* C8: the root wrapper has pk null and tags[0] equal to the sum of
\* stock_item_count over exactly the records whose parent is null (0 when
\* there is none).
C8_RootCountTopLevelOnly ==
    TreeAnswered =>
        /\ Root.pk = None
        /\ Root.tags = <<SumCounts({j \in DOMAIN records : records[j].parent = None}, records)>>

\* A tree where a descendant has stock of its own, so that the sum over the
\* top level differs from the sum over the whole tree.
C8_Witness ==
    /\ TreeAnswered
    /\ Root.tags[1] > 0
    /\ \E j \in DOMAIN records : records[j].parent # None /\ records[j].stock_item_count > 0

\* C9: siblings are in ascending order of name at every level, and every
\* record appears exactly once, under the node of its parent.
C9_SortedAndComplete ==
    TreeAnswered =>
        /\ SiblingsInOrder(Root.nodes, None)
        /\ \A nd \in RecordNodes :
              "nodes" \in DOMAIN nd => SiblingsInOrder(nd.nodes, nd.pk)
        /\ {PkList(Root.nodes)[k] : k \in 1..Len(PkList(Root.nodes))} = DOMAIN records
        /\ Len(PkList(Root.nodes)) = Cardinality(DOMAIN records)

\* Two siblings below a record, of different names, where the one of the
\* greater name has the smaller identifier.
C9_Witness ==
    /\ TreeAnswered
    /\ \E i, j \in DOMAIN records :
          /\ i < j
          /\ records[i].parent # None
          /\ records[i].parent = records[j].parent
          /\ records[i].name > records[j].name

====
